---- MODULE Spec2Model ----
(***************************************************************************)
(* Model of the prode tracker of src/app.py: the point rule                *)
(* (compute_points), the stored tables (users, matches, predictions,      *)
(* pools, pool_members) with the handlers that write them, and the two    *)
(* ranking handlers (ranking, pool_ranking). The requests are handled at  *)
(* the same time: a handler that reads and later writes is two steps.     *)
(***************************************************************************)
EXTENDS Integers, Sequences, FiniteSets, Bags, TLC

VARIABLES
    users,         \* table users: sequence of names, a user's id is its index
    matches,       \* table matches: id -> [home_score, away_score]
    predictions,   \* table predictions: set of rows
    pools,         \* table pools: sequence of [name, code], id is the index
    pool_members,  \* table pool_members: set of rows
    response,      \* the ranking the last handled request rendered, if any
    cp_args,       \* arguments of a direct call of compute_points
    cp_result,     \* what that call produced
    inflight,      \* bag of the requests between their reads and their write
    locked         \* a connection left open by a failed write holds the lock

vars == <<users, matches, predictions, pools, pool_members, response,
          cp_args, cp_result, inflight, locked>>

dbvars == <<users, matches, predictions, pools, pool_members, response,
            locked>>

-----------------------------------------------------------------------------
(* Bounds of the model.                                                    *)

MaxGoal == 3       \* integer arguments of compute_points range over -1..MaxGoal
MaxStrLen == 2     \* longest string argument of compute_points
MaxUsers == 2      \* rows of table users
NumMatches == 2    \* rows of the loaded fixture
MaxPools == 2      \* rows of table pools
MaxInflight == 2   \* requests between their reads and their write

-----------------------------------------------------------------------------
(* Python values: None, int and str. A str is the sequence of the code     *)
(* points of its characters, "A7" is <<65, 55>>.                           *)

PyNone == [t |-> "none", v |-> 0, s |-> <<>>]
PyInt(n) == [t |-> "int", v |-> n, s |-> <<>>]
PyStr(chars) == [t |-> "str", v |-> 0, s |-> chars]

IsNone(x) == x.t = "none"

\* The white space of str.strip(): the characters of str.isspace().
SpaceChars ==
    {9, 10, 11, 12, 13, 28, 29, 30, 31, 32, 133, 160, 5760}
        \cup (8192..8202) \cup {8232, 8233, 8239, 8287, 12288}

\* The white space int() skips around a number: the separators 28 to 31
\* are white space for str.strip() and not for int().
IntSpaceChars == SpaceChars \ (28..31)

\* "+" and "-", and the "_" that may stand between two digits.
SignChars == {43, 45}
Underscore == 95

\* The decimal digits of Unicode come in runs of ten, 0 to 9; these are the
\* code points of the zeros, 48 for "0".
DigitZeros == {
    48, 1632, 1776, 1984, 2406, 2534, 2662, 2790, 2918, 3046, 3174, 3302,
    3430, 3558, 3664, 3792, 3872, 4160, 4240, 6112, 6160, 6470, 6608, 6784,
    6800, 6992, 7088, 7232, 7248, 42528, 43216, 43264, 43472, 43504, 43600,
    44016, 65296, 66720, 68912, 69734, 69872, 69942, 70096, 70384, 70736,
    70864, 71248, 71360, 71472, 71904, 72016, 72784, 73040, 73120, 92768,
    92864, 93008, 120782, 120792, 120802, 120812, 120822, 123200, 123632,
    125264, 130032 }

DigitChars == UNION {z..(z + 9) : z \in DigitZeros}

DigitValue(c) == c - (CHOOSE z \in DigitZeros : c \in z..(z + 9))

\* The leading, and the trailing, characters of a set removed.
RECURSIVE LStrip(_, _)
LStrip(chars, spaces) ==
    IF chars # <<>> /\ Head(chars) \in spaces
    THEN LStrip(Tail(chars), spaces)
    ELSE chars

RECURSIVE RStrip(_, _)
RStrip(chars, spaces) ==
    IF chars # <<>> /\ chars[Len(chars)] \in spaces
    THEN RStrip(SubSeq(chars, 1, Len(chars) - 1), spaces)
    ELSE chars

\* str.strip(): leading and trailing whitespace removed.
Strip(chars) == RStrip(LStrip(chars, SpaceChars), SpaceChars)

\* The value of a non-empty run of decimal digits.
RECURSIVE DecimalValue(_)
DecimalValue(digits) ==
    IF digits = <<>>
    THEN 0
    ELSE 10 * DecimalValue(SubSeq(digits, 1, Len(digits) - 1))
         + DigitValue(digits[Len(digits)])

\* Digits with single underscores between them, as in "1_000".
DigitsWithUnderscores(chars) ==
    /\ chars # <<>>
    /\ chars[1] \in DigitChars
    /\ chars[Len(chars)] \in DigitChars
    /\ \A i \in 1..Len(chars) :
           \/ chars[i] \in DigitChars
           \/ chars[i] = Underscore /\ chars[i + 1] \in DigitChars

\* The characters of a string that are no underscore, in their order.
RECURSIVE WithoutUnderscores(_)
WithoutUnderscores(chars) ==
    IF chars = <<>> THEN <<>>
    ELSE IF Head(chars) = Underscore THEN WithoutUnderscores(Tail(chars))
    ELSE <<Head(chars)>> \o WithoutUnderscores(Tail(chars))

Converted(n) == [ok |-> TRUE, v |-> n, exc |-> "none"]
Raised(e) == [ok |-> FALSE, v |-> 0, exc |-> e]

\* int(str): surrounding whitespace ignored, an optional sign, then digits
\* with single underscores allowed between them; anything else raises
\* ValueError.
IntOfStr(chars) ==
    LET body == RStrip(LStrip(chars, IntSpaceChars), IntSpaceChars)
        signed == body # <<>> /\ Head(body) \in SignChars
        literal == IF signed THEN Tail(body) ELSE body
        digits == WithoutUnderscores(literal)
    IN  IF DigitsWithUnderscores(literal)
        THEN Converted(IF signed /\ Head(body) = 45
                       THEN 0 - DecimalValue(digits)
                       ELSE DecimalValue(digits))
        ELSE Raised("ValueError")

\* int(x): an int is itself, None raises TypeError, a str is parsed.
int(x) ==
    CASE x.t = "int" -> Converted(x.v)
      [] x.t = "none" -> Raised("TypeError")
      [] x.t = "str" -> IntOfStr(x.s)

-----------------------------------------------------------------------------
(* compute_points: the point rule.                                         *)

Returned(x) == [kind |-> "return", value |-> x, exc |-> "none"]
Propagated(e) == [kind |-> "raise", value |-> PyNone, exc |-> e]

\* A handler that forgets TypeError (a None prediction).
CaughtOnlyValueError == {"ValueError"}

\* The exceptions the try block of compute_points catches.
CaughtByComputePoints == {"TypeError", "ValueError"}

\* A draw taken for a home win (>= for >).
OutcomeDrawAsHome(h, a) == IF h >= a THEN "H" ELSE "A"

\* H, A or D from two integers.
Outcome(h, a) == IF h > a THEN "H" ELSE IF h < a THEN "A" ELSE "D"

\* The outcome rule tried before the exact-score rule.
PointRuleOutcomeFirst(hp, ap, hs, as) ==
    IF Outcome(hp, ap) = Outcome(hs, as)
    THEN IF (hs - as) = (hp - ap) THEN 4 ELSE 3
    ELSE 0

\* The predicted differential taken with the wrong sign.
PointRuleSwappedDifferential(hp, ap, hs, as) ==
    IF hp = hs /\ ap = as
    THEN 5
    ELSE IF Outcome(hp, ap) = Outcome(hs, as)
         THEN IF (hs - as) = (ap - hp) THEN 4 ELSE 3
         ELSE 0

\* The outcome-only case left to fall through to 0.
PointRuleNoOutcomeOnly(hp, ap, hs, as) ==
    IF hp = hs /\ ap = as
    THEN 5
    ELSE IF Outcome(hp, ap) = Outcome(hs, as) /\ (hs - as) = (hp - ap)
         THEN 4
         ELSE 0

\* The rule once all four values are integers.
PointRule(hp, ap, hs, as) ==
    IF hp = hs /\ ap = as
    THEN 5
    ELSE IF Outcome(hp, ap) = Outcome(hs, as)
         THEN IF (hs - as) = (hp - ap) THEN 4 ELSE 3
         ELSE 0

\* The first exception that int() raises over the four values, in the order
\* the code converts them, or "none".
FirstRaised(convs) ==
    IF \A i \in 1..Len(convs) : convs[i].ok
    THEN "none"
    ELSE convs[CHOOSE i \in 1..Len(convs) :
                 /\ ~convs[i].ok
                 /\ \A j \in 1..(i - 1) : convs[j].ok].exc

\* The four values converted before the scores are tested for None.
compute_points_convert_first(home_pred, away_pred, home_score, away_score) ==
    LET convs == <<int(home_pred), int(away_pred),
                   int(home_score), int(away_score)>>
        exc == FirstRaised(convs)
    IN  IF exc # "none"
        THEN Returned(PyInt(0))
        ELSE IF IsNone(home_score) \/ IsNone(away_score)
             THEN Returned(PyNone)
             ELSE Returned(PyInt(PointRule(convs[1].v, convs[2].v,
                                           convs[3].v, convs[4].v)))

compute_points(home_pred, away_pred, home_score, away_score) ==
    IF IsNone(home_score) \/ IsNone(away_score)
    THEN Returned(PyNone)
    ELSE LET convs == <<int(home_pred), int(away_pred),
                        int(home_score), int(away_score)>>
             exc == FirstRaised(convs)
         IN  IF exc # "none"
             THEN IF exc \in CaughtByComputePoints
                  THEN Returned(PyInt(0))
                  ELSE Propagated(exc)
             ELSE Returned(PyInt(PointRule(convs[1].v, convs[2].v,
                                           convs[3].v, convs[4].v)))

-----------------------------------------------------------------------------
(* Direct calls of compute_points on loosely typed values.                 *)

\* "2", "-", " " and "x".
StrAlphabet == {50, 45, 32, 120}

StringsUpTo(n) == UNION {[1..k -> StrAlphabet] : k \in 0..n}

IntArgs == {PyInt(n) : n \in (0 - 1)..MaxGoal}
\* Strings with a white-space character other than the space, and with
\* underscores: "\r2", "2\x1f", "2_2" and "2_".
OtherStrings == {<<13, 50>>, <<50, 31>>, <<50, 95, 50>>, <<50, 95>>}

StrArgs == {PyStr(chars) : chars \in StringsUpTo(MaxStrLen) \cup OtherStrings}

\* What a caller may pass as a prediction value, and as a score.
PredArgs == IntArgs \cup {PyNone} \cup StrArgs
\* The strings are "2" and "x".
ScoreArgs == IntArgs \cup {PyNone} \cup {PyStr(<<50>>), PyStr(<<120>>)}

NotCalled == [kind |-> "pending", value |-> PyNone, exc |-> "none"]
NoArgs == <<PyNone, PyNone, PyNone, PyNone>>

CallComputePoints ==
    /\ cp_result = NotCalled
    /\ cp_result' = compute_points(cp_args[1], cp_args[2], cp_args[3], cp_args[4])
    /\ UNCHANGED <<cp_args, dbvars, inflight>>

-----------------------------------------------------------------------------
(* The stored tables after init_db and ensure_pool_tables.                 *)

\* load_fixture_from_csv: every match is stored with both scores None.
load_fixture_from_csv ==
    [m \in 1..NumMatches |-> [home_score |-> PyNone, away_score |-> PyNone]]

\* A response is kept for the ranking it carries: a redirect, a form page
\* and a 404 all carry none.
NoResponse == [kind |-> "none", ranking |-> <<>>, pool_id |-> 0]
NoRanking == [kind |-> "other", ranking |-> <<>>, pool_id |-> 0]
ServerError == [kind |-> "500", ranking |-> <<>>, pool_id |-> 0]

init_db ==
    /\ users = <<>>
    /\ matches = load_fixture_from_csv
    /\ predictions = {}

ensure_pool_tables ==
    /\ pools = <<>>
    /\ pool_members = {}

InitDb ==
    /\ init_db
    /\ ensure_pool_tables
    /\ response = NoResponse
    /\ locked = FALSE

\* A request that has made its reads and not yet its write: what it read.
PredictRequest(match_id, user_id, prediction) ==
    [handler |-> "predict", match_id |-> match_id, user_id |-> user_id,
     prediction |-> prediction, pool_name |-> <<>>, code |-> <<>>]

PoolsRequest(user_id, pool_name, code) ==
    [handler |-> "pools", match_id |-> 0, user_id |-> user_id,
     prediction |-> FALSE, pool_name |-> pool_name, code |-> code]

\* The requests in progress that wait in handler h.
InProgress(h) == {r \in BagToSet(inflight) : r.handler = h}

-----------------------------------------------------------------------------
(* Form input of the requests.                                             *)

\* "Alpha" and "Beta".
Alpha == <<65, 108, 112, 104, 97>>
Beta == <<66, 101, 116, 97>>

\* Field "name" of the form of index: two names, raw and padded, and blanks.
NameForms == {Alpha, Beta, <<32>> \o Beta \o <<32>>, <<>>, <<32>>}

\* Fields home_pred and away_pred of the form of predict, as submitted:
\* 1-0 and 0-0, a blank field and a field that is no integer:
\* ("\r1", "0"), ("0_0", "0"), ("1", " ") and ("x", "1").
PredForms == {
    <<<<13, 49>>, <<48>>>>,
    <<<<48, 95, 48>>, <<48>>>>,
    <<<<49>>, <<32>>>>,
    <<<<120>>, <<49>>>> }

\* Fields home_score and away_score of the form of admin_edit_match:
\* 1-0, a blank field and a field that is no integer:
\* ("1", "0 "), ("", "0") and ("0", "1x").
ResultForms == {
    <<<<49>>, <<48, 32>>>>,
    <<<<>>, <<48>>>>,
    <<<<48>>, <<49, 120>>>> }

\* Field "pool_name" of the form of pools: "Liga" and " ".
PoolNameForms == {<<76, 105, 103, 97>>, <<32>>}

\* The codes generate_pool_code may draw: "A7K3QZ" and "QZA7K3".
PoolCodes == {<<65, 55, 75, 51, 81, 90>>, <<81, 90, 65, 55, 75, 51>>}

\* Field "code" of the form of pools: "a7k3qz", " QZA7K3", "ZZZZZZ", "".
CodeForms == {<<97, 55, 107, 51, 113, 122>>,
              <<32, 81, 90, 65, 55, 75, 51>>,
              <<90, 90, 90, 90, 90, 90>>,
              <<>>}

\* What a request in progress may have read.
PredictRequests ==
    {PredictRequest(match_id, user_id, prediction) :
        match_id \in 1..NumMatches, user_id \in 1..MaxUsers,
        prediction \in BOOLEAN}

PoolsRequests ==
    {PoolsRequest(user_id, Strip(name_form), code) :
        user_id \in 1..MaxUsers, name_form \in PoolNameForms,
        code \in PoolCodes}

\* user_id of the query string: 0 stands for a missing or zero value, and
\* MaxUsers + 1 is never a stored id.
UserIdArgs == 0..(MaxUsers + 1)
MatchIdArgs == 1..(NumMatches + 1)
PoolIdArgs == 1..(MaxPools + 1)

\* str.upper(), character by character. Beyond ASCII a character with an
\* upper case is in a run <<first, last, step, upper case of first>> of
\* characters as far from their upper case as the first, or has an upper
\* case of several characters.
UpperRuns == {
    <<181, 181, 1, 924>>, <<224, 246, 1, 192>>, <<248, 254, 1, 216>>,
    <<255, 255, 1, 376>>, <<257, 303, 2, 256>>, <<305, 305, 1, 73>>,
    <<307, 311, 2, 306>>, <<314, 328, 2, 313>>, <<331, 375, 2, 330>>,
    <<378, 382, 2, 377>>, <<383, 383, 1, 83>>, <<384, 384, 1, 579>>,
    <<387, 389, 2, 386>>, <<392, 392, 1, 391>>, <<396, 396, 1, 395>>,
    <<402, 402, 1, 401>>, <<405, 405, 1, 502>>, <<409, 409, 1, 408>>,
    <<410, 410, 1, 573>>, <<414, 414, 1, 544>>, <<417, 421, 2, 416>>,
    <<424, 424, 1, 423>>, <<429, 429, 1, 428>>, <<432, 432, 1, 431>>,
    <<436, 438, 2, 435>>, <<441, 441, 1, 440>>, <<445, 445, 1, 444>>,
    <<447, 447, 1, 503>>, <<453, 453, 1, 452>>, <<454, 454, 1, 452>>,
    <<456, 456, 1, 455>>, <<457, 457, 1, 455>>, <<459, 459, 1, 458>>,
    <<460, 460, 1, 458>>, <<462, 476, 2, 461>>, <<477, 477, 1, 398>>,
    <<479, 495, 2, 478>>, <<498, 498, 1, 497>>, <<499, 499, 1, 497>>,
    <<501, 501, 1, 500>>, <<505, 543, 2, 504>>, <<547, 563, 2, 546>>,
    <<572, 572, 1, 571>>, <<575, 576, 1, 11390>>, <<578, 578, 1, 577>>,
    <<583, 591, 2, 582>>, <<592, 592, 1, 11375>>, <<593, 593, 1, 11373>>,
    <<594, 594, 1, 11376>>, <<595, 595, 1, 385>>, <<596, 596, 1, 390>>,
    <<598, 599, 1, 393>>, <<601, 601, 1, 399>>, <<603, 603, 1, 400>>,
    <<604, 604, 1, 42923>>, <<608, 608, 1, 403>>, <<609, 609, 1, 42924>>,
    <<611, 611, 1, 404>>, <<613, 613, 1, 42893>>, <<614, 614, 1, 42922>>,
    <<616, 616, 1, 407>>, <<617, 617, 1, 406>>, <<618, 618, 1, 42926>>,
    <<619, 619, 1, 11362>>, <<620, 620, 1, 42925>>, <<623, 623, 1, 412>>,
    <<625, 625, 1, 11374>>, <<626, 626, 1, 413>>, <<629, 629, 1, 415>>,
    <<637, 637, 1, 11364>>, <<640, 640, 1, 422>>, <<642, 642, 1, 42949>>,
    <<643, 643, 1, 425>>, <<647, 647, 1, 42929>>, <<648, 648, 1, 430>>,
    <<649, 649, 1, 580>>, <<650, 651, 1, 433>>, <<652, 652, 1, 581>>,
    <<658, 658, 1, 439>>, <<669, 669, 1, 42930>>, <<670, 670, 1, 42928>>,
    <<837, 837, 1, 921>>, <<881, 883, 2, 880>>, <<887, 887, 1, 886>>,
    <<891, 893, 1, 1021>>, <<940, 940, 1, 902>>, <<941, 943, 1, 904>>,
    <<945, 961, 1, 913>>, <<962, 962, 1, 931>>, <<963, 971, 1, 931>>,
    <<972, 972, 1, 908>>, <<973, 974, 1, 910>>, <<976, 976, 1, 914>>,
    <<977, 977, 1, 920>>, <<981, 981, 1, 934>>, <<982, 982, 1, 928>>,
    <<983, 983, 1, 975>>, <<985, 1007, 2, 984>>, <<1008, 1008, 1, 922>>,
    <<1009, 1009, 1, 929>>, <<1010, 1010, 1, 1017>>, <<1011, 1011, 1, 895>>,
    <<1013, 1013, 1, 917>>, <<1016, 1016, 1, 1015>>,
    <<1019, 1019, 1, 1018>>, <<1072, 1103, 1, 1040>>,
    <<1104, 1119, 1, 1024>>, <<1121, 1153, 2, 1120>>,
    <<1163, 1215, 2, 1162>>, <<1218, 1230, 2, 1217>>,
    <<1231, 1231, 1, 1216>>, <<1233, 1327, 2, 1232>>,
    <<1377, 1414, 1, 1329>>, <<4304, 4346, 1, 7312>>,
    <<4349, 4351, 1, 7357>>, <<5112, 5117, 1, 5104>>,
    <<7296, 7296, 1, 1042>>, <<7297, 7297, 1, 1044>>,
    <<7298, 7298, 1, 1054>>, <<7299, 7300, 1, 1057>>,
    <<7301, 7301, 1, 1058>>, <<7302, 7302, 1, 1066>>,
    <<7303, 7303, 1, 1122>>, <<7304, 7304, 1, 42570>>,
    <<7545, 7545, 1, 42877>>, <<7549, 7549, 1, 11363>>,
    <<7566, 7566, 1, 42950>>, <<7681, 7829, 2, 7680>>,
    <<7835, 7835, 1, 7776>>, <<7841, 7935, 2, 7840>>,
    <<7936, 7943, 1, 7944>>, <<7952, 7957, 1, 7960>>,
    <<7968, 7975, 1, 7976>>, <<7984, 7991, 1, 7992>>,
    <<8000, 8005, 1, 8008>>, <<8017, 8023, 2, 8025>>,
    <<8032, 8039, 1, 8040>>, <<8048, 8049, 1, 8122>>,
    <<8050, 8053, 1, 8136>>, <<8054, 8055, 1, 8154>>,
    <<8056, 8057, 1, 8184>>, <<8058, 8059, 1, 8170>>,
    <<8060, 8061, 1, 8186>>, <<8112, 8113, 1, 8120>>,
    <<8126, 8126, 1, 921>>, <<8144, 8145, 1, 8152>>,
    <<8160, 8161, 1, 8168>>, <<8165, 8165, 1, 8172>>,
    <<8526, 8526, 1, 8498>>, <<8560, 8575, 1, 8544>>,
    <<8580, 8580, 1, 8579>>, <<9424, 9449, 1, 9398>>,
    <<11312, 11359, 1, 11264>>, <<11361, 11361, 1, 11360>>,
    <<11365, 11365, 1, 570>>, <<11366, 11366, 1, 574>>,
    <<11368, 11372, 2, 11367>>, <<11379, 11379, 1, 11378>>,
    <<11382, 11382, 1, 11381>>, <<11393, 11491, 2, 11392>>,
    <<11500, 11502, 2, 11499>>, <<11507, 11507, 1, 11506>>,
    <<11520, 11557, 1, 4256>>, <<11559, 11559, 1, 4295>>,
    <<11565, 11565, 1, 4301>>, <<42561, 42605, 2, 42560>>,
    <<42625, 42651, 2, 42624>>, <<42787, 42799, 2, 42786>>,
    <<42803, 42863, 2, 42802>>, <<42874, 42876, 2, 42873>>,
    <<42879, 42887, 2, 42878>>, <<42892, 42892, 1, 42891>>,
    <<42897, 42899, 2, 42896>>, <<42900, 42900, 1, 42948>>,
    <<42903, 42921, 2, 42902>>, <<42933, 42947, 2, 42932>>,
    <<42952, 42954, 2, 42951>>, <<42961, 42961, 1, 42960>>,
    <<42967, 42969, 2, 42966>>, <<42998, 42998, 1, 42997>>,
    <<43859, 43859, 1, 42931>>, <<43888, 43967, 1, 5024>>,
    <<65345, 65370, 1, 65313>>, <<66600, 66639, 1, 66560>>,
    <<66776, 66811, 1, 66736>>, <<66967, 66977, 1, 66928>>,
    <<66979, 66993, 1, 66940>>, <<66995, 67001, 1, 66956>>,
    <<67003, 67004, 1, 66964>>, <<68800, 68850, 1, 68736>>,
    <<71872, 71903, 1, 71840>>, <<93792, 93823, 1, 93760>>,
    <<125218, 125251, 1, 125184>> }

UpperSpecial == {
    <<223, <<83, 83>>>>, <<329, <<700, 78>>>>, <<496, <<74, 780>>>>,
    <<912, <<921, 776, 769>>>>, <<944, <<933, 776, 769>>>>,
    <<1415, <<1333, 1362>>>>, <<7830, <<72, 817>>>>, <<7831, <<84, 776>>>>,
    <<7832, <<87, 778>>>>, <<7833, <<89, 778>>>>, <<7834, <<65, 702>>>>,
    <<8016, <<933, 787>>>>, <<8018, <<933, 787, 768>>>>,
    <<8020, <<933, 787, 769>>>>, <<8022, <<933, 787, 834>>>>,
    <<8064, <<7944, 921>>>>, <<8065, <<7945, 921>>>>,
    <<8066, <<7946, 921>>>>, <<8067, <<7947, 921>>>>,
    <<8068, <<7948, 921>>>>, <<8069, <<7949, 921>>>>,
    <<8070, <<7950, 921>>>>, <<8071, <<7951, 921>>>>,
    <<8072, <<7944, 921>>>>, <<8073, <<7945, 921>>>>,
    <<8074, <<7946, 921>>>>, <<8075, <<7947, 921>>>>,
    <<8076, <<7948, 921>>>>, <<8077, <<7949, 921>>>>,
    <<8078, <<7950, 921>>>>, <<8079, <<7951, 921>>>>,
    <<8080, <<7976, 921>>>>, <<8081, <<7977, 921>>>>,
    <<8082, <<7978, 921>>>>, <<8083, <<7979, 921>>>>,
    <<8084, <<7980, 921>>>>, <<8085, <<7981, 921>>>>,
    <<8086, <<7982, 921>>>>, <<8087, <<7983, 921>>>>,
    <<8088, <<7976, 921>>>>, <<8089, <<7977, 921>>>>,
    <<8090, <<7978, 921>>>>, <<8091, <<7979, 921>>>>,
    <<8092, <<7980, 921>>>>, <<8093, <<7981, 921>>>>,
    <<8094, <<7982, 921>>>>, <<8095, <<7983, 921>>>>,
    <<8096, <<8040, 921>>>>, <<8097, <<8041, 921>>>>,
    <<8098, <<8042, 921>>>>, <<8099, <<8043, 921>>>>,
    <<8100, <<8044, 921>>>>, <<8101, <<8045, 921>>>>,
    <<8102, <<8046, 921>>>>, <<8103, <<8047, 921>>>>,
    <<8104, <<8040, 921>>>>, <<8105, <<8041, 921>>>>,
    <<8106, <<8042, 921>>>>, <<8107, <<8043, 921>>>>,
    <<8108, <<8044, 921>>>>, <<8109, <<8045, 921>>>>,
    <<8110, <<8046, 921>>>>, <<8111, <<8047, 921>>>>,
    <<8114, <<8122, 921>>>>, <<8115, <<913, 921>>>>, <<8116, <<902, 921>>>>,
    <<8118, <<913, 834>>>>, <<8119, <<913, 834, 921>>>>,
    <<8124, <<913, 921>>>>, <<8130, <<8138, 921>>>>, <<8131, <<919, 921>>>>,
    <<8132, <<905, 921>>>>, <<8134, <<919, 834>>>>,
    <<8135, <<919, 834, 921>>>>, <<8140, <<919, 921>>>>,
    <<8146, <<921, 776, 768>>>>, <<8147, <<921, 776, 769>>>>,
    <<8150, <<921, 834>>>>, <<8151, <<921, 776, 834>>>>,
    <<8162, <<933, 776, 768>>>>, <<8163, <<933, 776, 769>>>>,
    <<8164, <<929, 787>>>>, <<8166, <<933, 834>>>>,
    <<8167, <<933, 776, 834>>>>, <<8178, <<8186, 921>>>>,
    <<8179, <<937, 921>>>>, <<8180, <<911, 921>>>>, <<8182, <<937, 834>>>>,
    <<8183, <<937, 834, 921>>>>, <<8188, <<937, 921>>>>,
    <<64256, <<70, 70>>>>, <<64257, <<70, 73>>>>, <<64258, <<70, 76>>>>,
    <<64259, <<70, 70, 73>>>>, <<64260, <<70, 70, 76>>>>,
    <<64261, <<83, 84>>>>, <<64262, <<83, 84>>>>, <<64275, <<1348, 1350>>>>,
    <<64276, <<1348, 1333>>>>, <<64277, <<1348, 1339>>>>,
    <<64278, <<1358, 1350>>>>, <<64279, <<1348, 1341>>>> }

ToUpper(c) ==
    IF c < 128
    THEN IF c \in 97..122 THEN <<c - 32>> ELSE <<c>>
    ELSE IF \E s \in UpperSpecial : s[1] = c
    THEN (CHOOSE s \in UpperSpecial : s[1] = c)[2]
    ELSE IF \E r \in UpperRuns : c \in r[1]..r[2] /\ (c - r[1]) % r[3] = 0
    THEN LET r == CHOOSE q \in UpperRuns :
                      c \in q[1]..q[2] /\ (c - q[1]) % q[3] = 0
         IN  <<c - r[1] + r[4]>>
    ELSE <<c>>

RECURSIVE Upper(_)
Upper(chars) ==
    IF chars = <<>> THEN <<>>
    ELSE ToUpper(Head(chars)) \o Upper(Tail(chars))

-----------------------------------------------------------------------------
(* index (POST): create a user, or enter as an existing one.               *)

UserExists(user_id) == user_id \in 1..Len(users)
MatchExists(match_id) == match_id \in DOMAIN matches
NameTaken(name) == \E i \in 1..Len(users) : users[i] = name

\* A handler that writes is left by the exception of a refused INSERT, or
\* of a write made while the database is locked, before its commit and its
\* close: the response is a server error and the connection stays open in
\* its transaction, holding the lock of the database, until Python's
\* garbage collector frees it. Reads go on meanwhile.
index(name_form) ==
    LET name == Strip(name_form)
        inserts == ~NameTaken(name)
    IN  /\ UNCHANGED <<matches, predictions, pools, pool_members,
                       cp_args, cp_result, inflight, locked>>
        /\ IF name = <<>>
           THEN /\ response' = NoRanking
                /\ UNCHANGED users
           ELSE IF locked
           THEN /\ response' = ServerError
                /\ UNCHANGED users
           ELSE /\ inserts => Len(users) < MaxUsers
                /\ users' = IF inserts THEN Append(users, name) ELSE users
                /\ response' = NoRanking

\* The garbage collector frees the connections left open: the lock is
\* released.
collect ==
    /\ locked
    /\ locked' = FALSE
    /\ UNCHANGED <<users, matches, predictions, pools, pool_members,
                   response, cp_args, cp_result, inflight>>

-----------------------------------------------------------------------------
(* predict (POST): store or replace a user's prediction of a match.        *)

PredictionsOf(match_id, user_id) ==
    {p \in predictions : p.match_id = match_id /\ p.user_id = user_id}

\* UPDATE predictions SET home_pred, away_pred WHERE id = the row read.
UpdatePrediction(row, hp, ap) ==
    (predictions \ {row})
        \cup {[row EXCEPT !.home_pred = PyInt(hp), !.away_pred = PyInt(ap)]}

\* The table declared without UNIQUE(match_id, user_id).
InsertPredictionNoUnique(match_id, user_id, hp, ap) ==
    [exc |-> "none",
     table |-> predictions \cup
         {[match_id |-> match_id, user_id |-> user_id,
           home_pred |-> PyInt(hp), away_pred |-> PyInt(ap)]}]

\* INSERT INTO predictions, refused by UNIQUE(match_id, user_id).
InsertPrediction(match_id, user_id, hp, ap) ==
    IF PredictionsOf(match_id, user_id) # {}
    THEN [exc |-> "IntegrityError", table |-> predictions]
    ELSE [exc |-> "none",
          table |-> predictions \cup
              {[match_id |-> match_id, user_id |-> user_id,
                home_pred |-> PyInt(hp), away_pred |-> PyInt(ap)]}]

\* predict up to its SELECT of the stored prediction: the user and the
\* match are looked up, then the prediction of the pair; prediction tells
\* whether a row was read.
predict_select(match_id, user_id) ==
    /\ UNCHANGED <<users, matches, predictions, pools, pool_members,
                   cp_args, cp_result, locked>>
    /\ IF user_id = 0 \/ ~UserExists(user_id) \/ ~MatchExists(match_id)
       THEN /\ response' = NoRanking
            /\ UNCHANGED inflight
       ELSE /\ BagCardinality(inflight) < MaxInflight
            /\ inflight' = inflight (+) SetToBag({PredictRequest(
                   match_id, user_id, PredictionsOf(match_id, user_id) # {})})
            /\ UNCHANGED response

\* predict from the reading of its form on: the fields are stripped and
\* converted, then the row read is updated, or a row is inserted when none
\* was read, and the change is committed. A row keeps its id, its match_id
\* and its user_id and is never deleted, so UPDATE ... WHERE id = the id
\* read changes the row stored for the pair.
predict_write(r, home_form, away_form) ==
    LET home_pred == Strip(home_form)
        away_pred == Strip(away_form)
        hp == int(PyStr(home_pred))
        ap == int(PyStr(away_pred))
        stored == PredictionsOf(r.match_id, r.user_id)
        inserted == InsertPrediction(r.match_id, r.user_id, hp.v, ap.v)
    IN  /\ r \in InProgress("predict")
        /\ inflight' = inflight (-) SetToBag({r})
        /\ UNCHANGED <<users, matches, pools, pool_members, cp_args, cp_result>>
        /\ IF home_pred = <<>> \/ away_pred = <<>> \/ ~hp.ok \/ ~ap.ok
           THEN /\ response' = NoRanking
                /\ UNCHANGED <<predictions, locked>>
           ELSE IF locked
           THEN /\ response' = ServerError
                /\ UNCHANGED <<predictions, locked>>
           ELSE IF r.prediction
           THEN /\ predictions' =
                      UpdatePrediction(CHOOSE p \in stored : TRUE, hp.v, ap.v)
                /\ response' = NoRanking
                /\ UNCHANGED locked
           ELSE /\ predictions' = inserted.table
                /\ response' = IF inserted.exc = "none"
                               THEN NoRanking
                               ELSE ServerError
                /\ locked' = (inserted.exc # "none")

-----------------------------------------------------------------------------
(* admin_edit_match (POST): record the result of a match.                  *)

\* Each field stored on its own as soon as it is a non-empty integer.
admin_edit_match_field_by_field(match_id, home_form, away_form) ==
    LET home_score == Strip(home_form)
        away_score == Strip(away_form)
        hs == int(PyStr(home_score))
        as == int(PyStr(away_score))
    IN  /\ UNCHANGED <<users, predictions, pools, pool_members,
                       cp_args, cp_result, inflight, locked>>
        /\ IF ~MatchExists(match_id)
           THEN /\ response' = NoRanking
                /\ UNCHANGED matches
           ELSE /\ matches' = [matches EXCEPT ![match_id] =
                                 [home_score |-> IF hs.ok THEN PyInt(hs.v)
                                                 ELSE @.home_score,
                                  away_score |-> IF as.ok THEN PyInt(as.v)
                                                 ELSE @.away_score]]
                /\ response' = NoRanking

admin_edit_match(match_id, home_form, away_form) ==
    LET home_score == Strip(home_form)
        away_score == Strip(away_form)
        hs == int(PyStr(home_score))
        as == int(PyStr(away_score))
    IN  /\ UNCHANGED <<users, predictions, pools, pool_members,
                       cp_args, cp_result, inflight, locked>>
        /\ IF ~MatchExists(match_id)
           THEN /\ response' = NoRanking
                /\ UNCHANGED matches
           ELSE IF home_score = <<>> \/ away_score = <<>> \/ ~hs.ok \/ ~as.ok
           THEN /\ response' = NoRanking
                /\ UNCHANGED matches
           ELSE IF locked
           THEN /\ response' = ServerError
                /\ UNCHANGED matches
           ELSE /\ matches' = [matches EXCEPT ![match_id] =
                                 [home_score |-> PyInt(hs.v),
                                  away_score |-> PyInt(as.v)]]
                /\ response' = NoRanking

-----------------------------------------------------------------------------
(* pools (POST): create a pool, or join one by its code.                   *)

PoolExists(pool_id) == pool_id \in 1..Len(pools)
CodeTaken(code) == \E i \in 1..Len(pools) : pools[i].code = code

\* generate_pool_code: a random code that no pool has when it is drawn.
generate_pool_code == {code \in PoolCodes : ~CodeTaken(code)}

\* INSERT INTO pools, refused by UNIQUE on code.
InsertPool(pool_name, code) ==
    IF CodeTaken(code)
    THEN [exc |-> "IntegrityError", table |-> pools]
    ELSE [exc |-> "none",
          table |-> Append(pools, [name |-> pool_name, code |-> code])]

\* pools with action "create" up to the return of generate_pool_code, which
\* reads the codes on a connection of its own. No pool is begun once the
\* pools stored and the pools in progress are MaxPools.
pools_create_code(user_id, name_form) ==
    LET pool_name == Strip(name_form)
    IN  /\ UNCHANGED <<users, matches, predictions, pools, pool_members,
                       cp_args, cp_result, locked>>
        /\ IF user_id = 0 \/ ~UserExists(user_id) \/ pool_name = <<>>
           THEN /\ response' = NoRanking
                /\ UNCHANGED inflight
           ELSE /\ Len(pools) + Cardinality(InProgress("pools")) < MaxPools
                /\ BagCardinality(inflight) < MaxInflight
                /\ \E code \in generate_pool_code :
                       inflight' = inflight (+) SetToBag({PoolsRequest(
                           user_id, pool_name, code)})
                /\ UNCHANGED response

\* pools with action "create" from its INSERT on: the pool, its owner, the
\* commit.
pools_create_insert(r) ==
    LET inserted == InsertPool(r.pool_name, r.code)
    IN  /\ r \in InProgress("pools")
        /\ inflight' = inflight (-) SetToBag({r})
        /\ UNCHANGED <<users, matches, predictions, cp_args, cp_result>>
        /\ IF locked
           THEN /\ response' = ServerError
                /\ UNCHANGED <<pools, pool_members, locked>>
           ELSE IF inserted.exc = "none"
           THEN /\ pools' = inserted.table
                /\ pool_members' = pool_members \cup
                       {[pool_id |-> Len(pools) + 1, user_id |-> r.user_id,
                         role |-> "owner"]}
                /\ response' = NoRanking
                /\ UNCHANGED locked
           ELSE /\ response' = ServerError
                /\ locked' = TRUE
                /\ UNCHANGED <<pools, pool_members>>

\* INSERT INTO pool_members, refused by UNIQUE(pool_id, user_id).
InsertMember(pool_id, user_id) ==
    IF \E pm \in pool_members : pm.pool_id = pool_id /\ pm.user_id = user_id
    THEN pool_members
    ELSE pool_members \cup
             {[pool_id |-> pool_id, user_id |-> user_id, role |-> "member"]}

pools_join(user_id, code_form) ==
    LET code == Upper(Strip(code_form))
        found == {i \in 1..Len(pools) : pools[i].code = code}
    IN  /\ UNCHANGED <<users, matches, predictions, pools,
                       cp_args, cp_result, inflight, locked>>
        /\ IF user_id = 0 \/ ~UserExists(user_id)
           THEN /\ response' = NoRanking
                /\ UNCHANGED pool_members
           ELSE IF code = <<>> \/ found = {}
           THEN /\ response' = NoRanking
                /\ UNCHANGED pool_members
           ELSE IF locked
           THEN /\ response' = ServerError
                /\ UNCHANGED pool_members
           ELSE /\ pool_members' =
                      InsertMember(CHOOSE i \in found : TRUE, user_id)
                /\ response' = NoRanking

-----------------------------------------------------------------------------
(* ranking and pool_ranking: score the joined rows, sum per user, sort.    *)

\* a < b on Python strings: by code point, a proper prefix first.
RECURSIVE StrLess(_, _)
StrLess(a, b) ==
    IF b = <<>> THEN FALSE
    ELSE IF a = <<>> THEN TRUE
    ELSE IF Head(a) # Head(b) THEN Head(a) < Head(b)
    ELSE StrLess(Tail(a), Tail(b))

\* The points compared without the minus sign of the key.
KeyLessAscending(x, y) ==
    \/ x.points < y.points
    \/ x.points = y.points /\ StrLess(x.user_name, y.user_name)

\* The sort key (-points, user_name), compared as Python compares tuples.
KeyLess(x, y) ==
    \/ (0 - x.points) < (0 - y.points)
    \/ (0 - x.points) = (0 - y.points) /\ StrLess(x.user_name, y.user_name)

\* sorted(): stable, an entry goes before the first entry of greater key.
RECURSIVE InsertByKey(_, _)
InsertByKey(done, e) ==
    IF done = <<>> THEN <<e>>
    ELSE IF KeyLess(e, Head(done)) THEN <<e>> \o done
    ELSE <<Head(done)>> \o InsertByKey(Tail(done), e)

RECURSIVE sorted(_)
sorted(entries) ==
    IF entries = <<>> THEN <<>>
    ELSE InsertByKey(sorted(SubSeq(entries, 1, Len(entries) - 1)),
                     entries[Len(entries)])

\* The total replaced by the points of the row instead of increased.
AddPointsOverwrite(scores, row, pts) ==
    IF \E i \in 1..Len(scores) : scores[i].user_id = row.user_id
    THEN [i \in 1..Len(scores) |->
             IF scores[i].user_id = row.user_id
             THEN [scores[i] EXCEPT !.points = pts]
             ELSE scores[i]]
    ELSE Append(scores, [user_id |-> row.user_id,
                         user_name |-> row.user_name, points |-> pts])

\* scores[uid] is created with 0 points on the first row of a user, then
\* increased; scores keeps the order in which the users were first seen.
AddPoints(scores, row, pts) ==
    IF \E i \in 1..Len(scores) : scores[i].user_id = row.user_id
    THEN [i \in 1..Len(scores) |->
             IF scores[i].user_id = row.user_id
             THEN [scores[i] EXCEPT !.points = @ + pts]
             ELSE scores[i]]
    ELSE Append(scores, [user_id |-> row.user_id,
                         user_name |-> row.user_name, points |-> 0 + pts])

\* A row of a match without result counted as 0 points instead of skipped.
RECURSIVE ScoreRowsCountsPending(_, _)
ScoreRowsCountsPending(rows, scores) ==
    IF rows = <<>>
    THEN [exc |-> "none", scores |-> scores]
    ELSE LET r == Head(rows)
             pts == compute_points(r.home_pred, r.away_pred,
                                   r.home_score, r.away_score)
         IN  IF pts.kind = "raise"
             THEN [exc |-> pts.exc, scores |-> scores]
             ELSE ScoreRowsCountsPending(Tail(rows),
                      AddPoints(scores, r, pts.value.v))

\* The loop over the rows: compute_points, skip None, add to the user.
RECURSIVE ScoreRows(_, _)
ScoreRows(rows, scores) ==
    IF rows = <<>>
    THEN [exc |-> "none", scores |-> scores]
    ELSE LET r == Head(rows)
             pts == compute_points(r.home_pred, r.away_pred,
                                   r.home_score, r.away_score)
         IN  IF pts.kind = "raise"
             THEN [exc |-> pts.exc, scores |-> scores]
             ELSE IF IsNone(pts.value)
             THEN ScoreRows(Tail(rows), scores)
             ELSE ScoreRows(Tail(rows), AddPoints(scores, r, pts.value.v))

\* The response of a ranking handler for the rows its query returned.
RankingResponse(rows, kind, pool_id) ==
    LET acc == ScoreRows(rows, <<>>)
    IN  IF acc.exc # "none"
        THEN ServerError
        ELSE [kind |-> kind, ranking |-> sorted(acc.scores),
              pool_id |-> pool_id]

\* The orders in which a query without ORDER BY may return its rows.
RECURSIVE Orders(_)
Orders(S) ==
    IF S = {} THEN {<<>>}
    ELSE UNION {{<<x>> \o rest : rest \in Orders(S \ {x})} : x \in S}

\* One row of the join: the user, the prediction, the result of its match.
JoinedRow(p) ==
    [user_id |-> p.user_id, user_name |-> users[p.user_id],
     home_pred |-> p.home_pred, away_pred |-> p.away_pred,
     home_score |-> matches[p.match_id].home_score,
     away_score |-> matches[p.match_id].away_score]

\* predictions JOIN users JOIN matches.
RankingJoin ==
    {p \in predictions : UserExists(p.user_id) /\ MatchExists(p.match_id)}

ranking ==
    /\ \E order \in Orders(RankingJoin) :
           response' = RankingResponse(
               [i \in 1..Len(order) |-> JoinedRow(order[i])], "ranking", 0)
    /\ UNCHANGED <<users, matches, predictions, pools, pool_members,
                   cp_args, cp_result, inflight, locked>>

\* The join without its WHERE pm.pool_id = ? clause.
PoolJoinAllPools(pool_id) ==
    {pair \in pool_members \X predictions :
        /\ UserExists(pair[1].user_id)
        /\ pair[2].user_id = pair[1].user_id
        /\ MatchExists(pair[2].match_id)}

\* pool_members JOIN users JOIN predictions JOIN matches WHERE pm.pool_id = ?
PoolJoin(pool_id) ==
    {pair \in pool_members \X predictions :
        /\ pair[1].pool_id = pool_id
        /\ UserExists(pair[1].user_id)
        /\ pair[2].user_id = pair[1].user_id
        /\ MatchExists(pair[2].match_id)}

pool_ranking(pool_id) ==
    /\ IF ~PoolExists(pool_id)
       THEN response' = NoRanking
       ELSE \E order \in Orders(PoolJoin(pool_id)) :
                response' = RankingResponse(
                    [i \in 1..Len(order) |-> JoinedRow(order[i][2])],
                    "pool_ranking", pool_id)
    /\ UNCHANGED <<users, matches, predictions, pools, pool_members,
                   cp_args, cp_result, inflight, locked>>

-----------------------------------------------------------------------------
(* Specification of the application without its pools: users register,    *)
(* predict, results are recorded and the ranking is asked for. A request   *)
(* that reads and then writes is two steps, and the steps of up to         *)
(* MaxInflight such requests interleave.                                   *)

Init ==
    /\ InitDb
    /\ cp_args = NoArgs
    /\ cp_result = NotCalled
    /\ inflight = EmptyBag

Next ==
    \/ \E name_form \in NameForms : index(name_form)
    \/ \E match_id \in MatchIdArgs, user_id \in UserIdArgs :
           predict_select(match_id, user_id)
    \/ \E r \in PredictRequests, form \in PredForms :
           predict_write(r, form[1], form[2])
    \/ \E match_id \in MatchIdArgs, form \in ResultForms :
           admin_edit_match(match_id, form[1], form[2])
    \/ ranking
    \/ collect

Spec == Init /\ [][Next]_vars

-----------------------------------------------------------------------------
(* Specification of the application with its pools: as above, with the     *)
(* pools created and joined and both rankings asked for; the predictions   *)
(* and the results are those of the first match.                           *)

\* The id of the first match, and an id that no match has.
FirstMatchIdArgs == {1, NumMatches + 1}

NextPools ==
    \/ \E name_form \in NameForms : index(name_form)
    \/ \E match_id \in FirstMatchIdArgs, user_id \in UserIdArgs :
           predict_select(match_id, user_id)
    \/ \E r \in PredictRequests, form \in PredForms :
           predict_write(r, form[1], form[2])
    \/ \E match_id \in FirstMatchIdArgs, form \in ResultForms :
           admin_edit_match(match_id, form[1], form[2])
    \/ \E user_id \in UserIdArgs, name_form \in PoolNameForms :
           pools_create_code(user_id, name_form)
    \/ \E r \in PoolsRequests : pools_create_insert(r)
    \/ \E user_id \in UserIdArgs, code_form \in CodeForms :
           pools_join(user_id, code_form)
    \/ ranking
    \/ \E pool_id \in PoolIdArgs : pool_ranking(pool_id)
    \/ collect

SpecPools == Init /\ [][NextPools]_vars

-----------------------------------------------------------------------------
(* Specification of direct calls of compute_points: the arguments are      *)
(* drawn from PredArgs and ScoreArgs, and the call is made once.           *)

InitScore ==
    /\ InitDb
    /\ cp_args \in PredArgs \X PredArgs \X ScoreArgs \X ScoreArgs
    /\ cp_result = NotCalled
    /\ inflight = EmptyBag

NextScore == CallComputePoints

SpecScore == InitScore /\ [][NextScore]_vars

-----------------------------------------------------------------------------
(* Properties of compute_points.                                           *)

Called == cp_result.kind # "pending"
AllIntegers == \A i \in 1..4 : cp_args[i].t = "int"
PlayedMatch == ~IsNone(cp_args[3]) /\ ~IsNone(cp_args[4])

\* The predicted and the actual outcome (home win, away win, draw) agree.
SameOutcome(hp, ap, hs, as) ==
    \/ hp > ap /\ hs > as
    \/ hp < ap /\ hs < as
    \/ hp = ap /\ hs = as

IsExact == cp_args[1].v = cp_args[3].v /\ cp_args[2].v = cp_args[4].v
IsSameOutcome ==
    SameOutcome(cp_args[1].v, cp_args[2].v, cp_args[3].v, cp_args[4].v)
IsSameDifferential ==
    cp_args[3].v - cp_args[4].v = cp_args[1].v - cp_args[2].v

\* C1: for all integers a and b, compute_points(a, b, a, b) returns 5, also
\* when the score is a draw such as 0-0.
C1_ExactScoresFive ==
    (Called /\ AllIntegers /\ IsExact) => cp_result = Returned(PyInt(5))

C1_Witness ==
    /\ Called
    /\ cp_args = <<PyInt(0), PyInt(0), PyInt(0), PyInt(0)>>

\* C2: on integers, same outcome and same goal differential but not the
\* exact score returns 4.
C2_OutcomeAndDifferentialScoresFour ==
    (Called /\ AllIntegers /\ IsSameOutcome /\ IsSameDifferential /\ ~IsExact)
        => cp_result = Returned(PyInt(4))

C2_Witness ==
    /\ Called
    /\ cp_args = <<PyInt(2), PyInt(1), PyInt(3), PyInt(2)>>

\* C3: on integers, same outcome but a different goal differential
\* returns 3.
C3_OutcomeOnlyScoresThree ==
    (Called /\ AllIntegers /\ IsSameOutcome /\ ~IsSameDifferential)
        => cp_result = Returned(PyInt(3))

C3_Witness ==
    /\ Called
    /\ cp_args = <<PyInt(3), PyInt(0), PyInt(1), PyInt(0)>>

\* C4: on integers, a predicted outcome that differs from the actual
\* outcome returns 0.
C4_WrongOutcomeScoresZero ==
    (Called /\ AllIntegers /\ ~IsSameOutcome)
        => cp_result = Returned(PyInt(0))

C4_Witness ==
    /\ Called
    /\ cp_args = <<PyInt(0), PyInt(0), PyInt(1), PyInt(0)>>

\* C5: when home_score or away_score is None the call returns None, not 0,
\* whatever the prediction values are, malformed ones included.
C5_AbsentResultIsUnscoreable ==
    (Called /\ ~PlayedMatch)
        => /\ cp_result = Returned(PyNone)
           /\ cp_result # Returned(PyInt(0))

\* The home prediction is "x", the away score is None.
C5_Witness ==
    /\ Called
    /\ cp_args = <<PyStr(<<120>>), PyNone, PyInt(1), PyNone>>

\* C6: on a played match, a prediction value that int() rejects makes the
\* call return 0: not None, and no exception leaves the call.
C6_MalformedPredictionScoresZero ==
    (Called /\ PlayedMatch /\ (~int(cp_args[1]).ok \/ ~int(cp_args[2]).ok))
        => cp_result = Returned(PyInt(0))

\* The predictions are "x" and "2" on a match that ended 1-0.
C6_Witness ==
    /\ Called
    /\ cp_args = <<PyStr(<<120>>), PyStr(<<50>>), PyInt(1), PyInt(0)>>

-----------------------------------------------------------------------------
(* Properties of the rankings.                                             *)

IsRanking == response.kind = "ranking"
IsPoolRanking == response.kind = "pool_ranking"

UserIds == 1..Len(users)

\* The result of the match is recorded.
HasResult(match_id) ==
    /\ ~IsNone(matches[match_id].home_score)
    /\ ~IsNone(matches[match_id].away_score)

\* The stored predictions of a user on matches with a recorded result.
ScoreableOf(user_id) ==
    {p \in predictions : p.user_id = user_id /\ HasResult(p.match_id)}

Listed(user_id) ==
    \E i \in 1..Len(response.ranking) : response.ranking[i].user_id = user_id

MemberOf(user_id, pool_id) ==
    \E pm \in pool_members : pm.pool_id = pool_id /\ pm.user_id = user_id

\* The points of a stored prediction against the stored result of its match.
PointsOf(p) ==
    compute_points(p.home_pred, p.away_pred,
                   matches[p.match_id].home_score,
                   matches[p.match_id].away_score).value.v

RECURSIVE SumPoints(_)
SumPoints(rows) ==
    IF rows = {} THEN 0
    ELSE LET p == CHOOSE q \in rows : TRUE
         IN  PointsOf(p) + SumPoints(rows \ {p})

TotalOf(user_id) == SumPoints(ScoreableOf(user_id))

\* C7: a user is listed in the global ranking exactly when the user has a
\* prediction on a match with a recorded result, and in a pool ranking a
\* member is listed exactly then; only users are listed, none twice.
C7_ListedIffScoreable ==
    /\ IsRanking =>
           \A u \in UserIds : Listed(u) <=> ScoreableOf(u) # {}
    /\ IsPoolRanking =>
           \A u \in UserIds :
               MemberOf(u, response.pool_id) =>
                   (Listed(u) <=> ScoreableOf(u) # {})
    /\ (IsRanking \/ IsPoolRanking) =>
           \A i, j \in 1..Len(response.ranking) :
               /\ response.ranking[i].user_id \in UserIds
               /\ response.ranking[i].user_id = response.ranking[j].user_id
                      => i = j

\* One user predicted only a match without result and is absent, another
\* user's only scoreable prediction scores 0 and is listed with 0 points.
C7_Witness ==
    /\ IsRanking
    /\ \E u, w \in UserIds :
           /\ \E p \in predictions : p.user_id = u
           /\ ScoreableOf(u) = {}
           /\ ~Listed(u)
           /\ ScoreableOf(w) # {}
           /\ response.ranking = <<[user_id |-> w, user_name |-> users[w],
                                    points |-> 0]>>

\* C8: the points of every listed user are the sum of compute_points over
\* that user's stored predictions on matches with a recorded result, as
\* stored when the ranking is computed.
C8_PointsAreSumOfScoreableRows ==
    (IsRanking \/ IsPoolRanking) =>
        \A i \in 1..Len(response.ranking) :
            /\ response.ranking[i].user_id \in UserIds
            /\ response.ranking[i].points
                   = TotalOf(response.ranking[i].user_id)

\* Both matches ended 1-0; a user predicted 1-0 and 0-0 and has 5 + 0 = 5.
C8_Witness ==
    /\ IsRanking
    /\ \A m \in DOMAIN matches : HasResult(m)
    /\ \E u \in UserIds :
           /\ [match_id |-> 1, user_id |-> u,
               home_pred |-> PyInt(1), away_pred |-> PyInt(0)] \in predictions
           /\ [match_id |-> 2, user_id |-> u,
               home_pred |-> PyInt(0), away_pred |-> PyInt(0)] \in predictions
           /\ \E i \in 1..Len(response.ranking) :
                  /\ response.ranking[i].user_id = u
                  /\ response.ranking[i].points = 5

\* C9: a ranking, global or of a pool, is ordered by points descending
\* and, at equal points, by user name ascending.
C9_OrderedByPointsThenName ==
    (IsRanking \/ IsPoolRanking) =>
        \A i \in 1..(Len(response.ranking) - 1) :
            LET e1 == response.ranking[i]
                e2 == response.ranking[i + 1]
            IN  \/ e1.points > e2.points
                \/ /\ e1.points = e2.points
                   /\ ~StrLess(e2.user_name, e1.user_name)

\* Beta registered first, Alpha second, both are in the pool and have 5
\* points: Alpha is first in the ranking of the pool.
C9_Witness ==
    /\ IsPoolRanking
    /\ users = <<Beta, Alpha>>
    /\ response.ranking =
           <<[user_id |-> 2, user_name |-> Alpha, points |-> 5],
             [user_id |-> 1, user_name |-> Beta, points |-> 5]>>

\* C10: the ranking of a pool lists only members of that pool.
C10_PoolRankingListsOnlyMembers ==
    IsPoolRanking =>
        \A i \in 1..Len(response.ranking) :
            MemberOf(response.ranking[i].user_id, response.pool_id)

\* A user outside the pool has more points than every member, and a member
\* with fewer points is the whole ranking of the pool.
C10_Witness ==
    /\ IsPoolRanking
    /\ \E u, w \in UserIds :
           /\ ~MemberOf(w, response.pool_id)
           /\ MemberOf(u, response.pool_id)
           /\ ScoreableOf(w) # {}
           /\ \A v \in UserIds :
                  MemberOf(v, response.pool_id) => TotalOf(w) > TotalOf(v)
           /\ response.ranking = <<[user_id |-> u, user_name |-> users[u],
                                    points |-> TotalOf(u)]>>

-----------------------------------------------------------------------------
(* Properties of the stored tables.                                        *)

\* C12: the two scores of every match are both None or both recorded.
C12_ScoresPresentTogether ==
    \A m \in DOMAIN matches :
        IsNone(matches[m].home_score) <=> IsNone(matches[m].away_score)

\* The first match has its result, the second is as the fixture loaded it.
C12_Witness ==
    /\ matches[1] = [home_score |-> PyInt(1), away_score |-> PyInt(0)]
    /\ matches[2] = [home_score |-> PyNone, away_score |-> PyNone]

\* C11: there is at most one stored prediction per match and user, also
\* when two predict requests of the same match and user both read that no
\* prediction is stored before either of them writes.
C11_OnePredictionPerMatchAndUser ==
    \A p, q \in predictions :
        (p.match_id = q.match_id /\ p.user_id = q.user_id) => p = q

\* Two requests of one match and user both read that no prediction was
\* stored; the first inserted its row, the second was refused by the table
\* and ended with an error, its connection still open, and both requests
\* are over.
C11_Witness ==
    /\ response = ServerError
    /\ locked
    /\ inflight = EmptyBag
    /\ \E p \in predictions : PredictionsOf(p.match_id, p.user_id) = {p}

====
